---- MODULE Spec2Model ----
(***************************************************************************)
(* The websocket stream session of binance-connector: wsServe (the dial,   *)
(* the coordinator goroutine, the read loop goroutine) and keepAlive (the  *)
(* pong handler and the probing goroutine), together with the peer and the *)
(* caller that drive them.                                                 *)
(*                                                                         *)
(* Each goroutine is a program counter; one action is one statement (or    *)
(* one rendezvous on the unbuffered stopCh) of the source.  Time is a      *)
(* discrete clock; durations are whole clock units.                        *)
(***************************************************************************)
EXTENDS Integers, Sequences, FiniteSets, TLC

\* ------------------------------------------------------------------ bounds
MaxFrames == 2      \* data frames the peer sends in one session
MaxStops == 2       \* sends on stopCh the caller issues in one session
MaxPongs == 1       \* probes the peer answers in one session
MaxURLs == 2        \* baseURL arguments of one NewWebsocketStreamClient call

\* WebsocketTimeout, the timeout keepAlive is started with: one clock unit.
Timeout == 1

MaxTime == 3 * Timeout + 1  \* the clock stops here

ReadLimit == 655350 \* c.SetReadLimit(655350)

Sizes == {ReadLimit, ReadLimit + 1}

DialOutcomes == {"ok", "rejectedTLS", "rejectedPlain", "noResponse"}

\* Line 29: the url NewWebsocketStreamClient starts from.
DefaultURL == "wss://stream.binance.com:9443"

\* Base URLs a caller passes: the default one, a testnet, a local plain
\* endpoint, one ending in a slash, and the empty string.
URLs == {DefaultURL, "wss://testnet.binance.vision", "ws://localhost:8080",
         "wss://stream.binance.com:443/", ""}

\* The variadic baseURL argument: any number of URLs up to MaxURLs.
BaseURLLists == UNION {[1..n -> URLs] : n \in 0..MaxURLs}

\* The zero value of WebsocketStreamClient (lines 22-25).
ZeroClient == [Endpoint |-> "", IsCombined |-> FALSE]

VARIABLES
    callCombined,   \* the isCombined argument of NewWebsocketStreamClient
    callBaseURL,    \* its baseURL arguments
    client,         \* the client it returned (ZeroClient: not called yet)
    dial,           \* what Dialer.Dial returned ("none": not called yet)
    dials,          \* calls of Dialer.Dial made so far
    serveResult,    \* wsServe: "none" (not called), "ok", "error", "panic"
    keepalive,      \* the package variable WebsocketKeepalive
    doneCh,         \* "nil", "open", "closed"
    stopCh,         \* "nil", "open" (unbuffered, never closed)
    doneCloses,     \* number of close(doneCh) executed
    connCloses,     \* number of c.Close() executed by the session
    coordPc,        \* coordinator goroutine (lines 81-115)
    started,        \* goroutines the session has started so far, by kind
    silent,         \* the flag shared by coordinator and read loop
    readPc,         \* read loop goroutine (lines 93-105)
    handled,        \* payloads the message handler was invoked with, in order
    errCalls,       \* invocations of errHandler
    wire,           \* frames the peer sent that the connection has not read yet
    dataSent,       \* data frames the peer sent so far; the k-th carries payload k
    peerClosed,     \* the peer has closed the connection
    connFailed,     \* a read failed: the connection reads and writes no more
    pendingStops,   \* caller sends blocked on stopCh, issued before done closed
    lateStops,      \* caller sends blocked on stopCh, issued after done closed
    acceptedStops,  \* caller sends the coordinator received
    kaPc,           \* keepalive goroutine (lines 129-142)
    lastResponse,   \* keepAlive's lastResponse: the latest write
    firstResponse,  \* the value keepAlive gave lastResponse at line 123
    pongHandlerSet, \* c.SetPongHandler was called
    nextTick,       \* when ticker.C next fires
    pings,          \* probes written on the connection
    pongs,          \* probes the peer has answered
    now,            \* the clock
    stopAtFail,     \* how far a caller stop had got when ReadMessage failed
    stopAtTest      \* how far a caller stop had got when silent was tested

vars == <<callCombined, callBaseURL, client,
          dial, dials, serveResult, keepalive, doneCh, stopCh, doneCloses, connCloses,
          coordPc, started, silent, readPc, handled, errCalls, wire, dataSent,
          peerClosed, connFailed, pendingStops, lateStops, acceptedStops, kaPc,
          lastResponse, firstResponse, pongHandlerSet, nextTick, pings, pongs, now,
          stopAtFail, stopAtTest>>

clientVars == <<callCombined, callBaseURL, client>>
sessionVars == <<clientVars, dial, dials, serveResult, keepalive, stopCh>>
coordVars == <<doneCh, doneCloses, coordPc, started>>
readVars == <<readPc, handled, errCalls, connFailed, stopAtFail, stopAtTest>>
callerVars == <<pendingStops, lateStops, acceptedStops>>
kaVars == <<kaPc, lastResponse, firstResponse, pongHandlerSet, nextTick, pings>>
peerVars == <<wire, dataSent, peerClosed, pongs>>

\* ----------------------------------------------------------------- frames
DataFrame(p, n) == [kind |-> "data", payload |-> p, size |-> n]
PongFrame == [kind |-> "pong", payload |-> 0, size |-> 0]
CloseFrame == [kind |-> "close", payload |-> 0, size |-> 0]

Frames == {DataFrame(p, n) : p \in 1..MaxFrames, n \in Sizes} \cup {PongFrame, CloseFrame}

NextFrameNewest == wire[Len(wire)]

\* The frame the next read of the connection meets.
NextFrame == Head(wire)

ReadableAnySize(f) == f.kind = "data"

\* A frame ReadMessage hands to the caller: a data frame within the read limit.
Readable(f) == f.kind = "data" /\ f.size <= ReadLimit

\* A frame that makes ReadMessage return an error: the peer's close, or a
\* data frame over the read limit.
Failing(f) == f.kind = "close" \/ (f.kind = "data" /\ f.size > ReadLimit)

\* Caller sends on stopCh started so far.
StopsIssued == pendingStops + lateStops + acceptedStops

\* How far the caller's stop has got: no send started, a send started and
\* none received, a send received by the coordinator.
StopStage ==
    IF acceptedStops > 0 THEN "accepted"
    ELSE IF StopsIssued > 0 THEN "raised"
    ELSE "none"

\* --------------------------------------------------------------------- Init
SessionInit ==
    /\ dial = "none"
    /\ dials = 0
    /\ serveResult = "none"
    /\ keepalive \in BOOLEAN
    /\ doneCh = "nil"
    /\ stopCh = "nil"
    /\ doneCloses = 0
    /\ connCloses = 0
    /\ coordPc = "none"
    /\ started = [coord |-> 0, read |-> 0, ka |-> 0]
    /\ silent = FALSE
    /\ readPc = "none"
    /\ handled = <<>>
    /\ errCalls = 0
    /\ wire = <<>>
    /\ dataSent = 0
    /\ peerClosed = FALSE
    /\ connFailed = FALSE
    /\ pendingStops = 0
    /\ lateStops = 0
    /\ acceptedStops = 0
    /\ kaPc = "none"
    /\ lastResponse = 0
    /\ firstResponse = 0
    /\ pongHandlerSet = FALSE
    /\ nextTick = 0
    /\ pings = 0
    /\ pongs = 0
    /\ now = 0
    /\ stopAtFail = "unset"
    /\ stopAtTest = "unset"

\* A session of a client made in individual mode with no base URL.
Init ==
    /\ SessionInit
    /\ callCombined = FALSE
    /\ callBaseURL = <<>>
    /\ client = ZeroClient

\* Any call of NewWebsocketStreamClient.
ClientInit ==
    /\ SessionInit
    /\ callCombined \in BOOLEAN
    /\ callBaseURL \in BaseURLLists
    /\ client = ZeroClient

\* ------------------------------------------------- NewWebsocketStreamClient
NewWebsocketStreamClientLast(isCombined, baseURL) ==
    LET url == IF Len(baseURL) > 0 THEN baseURL[Len(baseURL)] ELSE DefaultURL
    IN  [Endpoint |-> IF isCombined THEN url \o "/stream?streams="
                                    ELSE url \o "/ws",
         IsCombined |-> isCombined]

\* Lines 27-46: start from the default url, take baseURL[0] when a base URL
\* was given, append the path of the mode, and return the client.
NewWebsocketStreamClient(isCombined, baseURL) ==
    LET url == IF Len(baseURL) > 0 THEN baseURL[1] ELSE DefaultURL
    IN  [Endpoint |-> IF isCombined THEN url \o "/stream?streams="
                                    ELSE url \o "/ws",
         IsCombined |-> isCombined]

\* The caller makes its client.
NewClient ==
    /\ client = ZeroClient
    /\ client' = NewWebsocketStreamClient(callCombined, callBaseURL)
    /\ UNCHANGED <<callCombined, callBaseURL, dial, dials, serveResult, keepalive,
                   stopCh, coordVars, connCloses, silent,
                   readVars, callerVars, kaVars, peerVars, now>>

\* ------------------------------------------------------------------ wsServe
\* What the error branch of the dial (lines 65-77) ends in.  It reads
\* httpResponse.Status and httpResponse.TLS.NegotiatedProtocol before it
\* returns: a nil response, or a response with no TLS state, is a nil
\* pointer dereference.
DialErrorResult(outcome) ==
    CASE outcome = "noResponse" -> "panic"
      [] outcome = "rejectedPlain" -> "panic"
      [] OTHER -> "error"

\* Line 64: the err Dialer.Dial reports.  A handshake the server rejects is
\* the package's ErrBadHandshake value, a plain error; a failure before any
\* response is the transport's error.
DialErr(outcome) ==
    CASE outcome \in {"rejectedTLS", "rejectedPlain"} -> "ErrBadHandshake"
      [] outcome = "noResponse" -> "netError"
      [] OTHER -> "nil"

\* Lines 70-75: the type switch on err.  A *websocket.CloseError and a
\* *websocket.HandshakeError are rewrapped with a prefix naming their class;
\* an error of any other type is left as it is.
WrapErr(e) ==
    CASE e = "CloseError" -> "websocket.CloseError: "
      [] e = "HandshakeError" -> "websocket.Handshake: "
      [] OTHER -> e

\* Line 76: the err wsServe has returned ("nil": it has returned none).
ReturnedErr == IF serveResult = "error" THEN WrapErr(DialErr(dial)) ELSE "nil"

MayDialAgain == serveResult \in {"none", "error"}

\* Lines 64 and 76: wsServe calls Dialer.Dial once, at its start, and a
\* failed dial returns at once: no path leads back to the dial.
NotYetDialed == serveResult = "none"

\* Lines 64-81 and 116: dial; on failure return (nil, nil, err); on success
\* set the read limit, make both channels and start the coordinator.  wsServe
\* is reached through a stream method of a client (README, lines 460-500).
WsServe(outcome) ==
    /\ client # ZeroClient
    /\ NotYetDialed
    /\ dial' = outcome
    /\ dials' = dials + 1
    /\ IF outcome = "ok"
       THEN /\ serveResult' = "ok"
            /\ doneCh' = "open"
            /\ stopCh' = "open"
            /\ coordPc' = "keepAlive"
            /\ started' = [started EXCEPT !.coord = @ + 1]
       ELSE /\ serveResult' = DialErrorResult(outcome)
            /\ UNCHANGED <<doneCh, stopCh, coordPc, started>>
    /\ UNCHANGED <<clientVars, keepalive, doneCloses, connCloses, silent,
                   readVars, callerVars, kaVars, peerVars, now>>

\* -------------------------------------------------------------- coordinator
AfterKeepAliveBlocks == IF keepalive THEN "keepAliveLoop" ELSE "spawn"

\* Lines 88-92: where the coordinator goes after the keepAlive call.  keepAlive
\* runs its loop in a goroutine of its own (line 129) and returns at once.
AfterKeepAlive == "spawn"

InstallsNoPongHandler == FALSE

\* Lines 124-127: keepAlive calls c.SetPongHandler before it starts its
\* goroutine (line 129) and before it returns to the coordinator.
InstallsPongHandler == TRUE

KeepAliveAlways == TRUE

\* Line 86: if WebsocketKeepalive.
KeepAliveEnabled == keepalive

\* Lines 86-88 with keepAlive's lines 121-129: when WebsocketKeepalive is
\* set, create the ticker, record lastResponse, install the pong handler and
\* start the keepalive goroutine.
CoordKeepAlive ==
    /\ coordPc = "keepAlive"
    /\ coordPc' = AfterKeepAlive
    /\ IF KeepAliveEnabled
       THEN /\ nextTick' = now + Timeout
            /\ lastResponse' = now
            /\ firstResponse' = now
            /\ pongHandlerSet' = InstallsPongHandler
            /\ kaPc' = "probe"
            /\ started' = [started EXCEPT !.ka = @ + 1]
       ELSE UNCHANGED <<nextTick, lastResponse, firstResponse, pongHandlerSet,
                        kaPc, started>>
    /\ UNCHANGED <<sessionVars, doneCh, doneCloses, connCloses, silent,
                   readVars, callerVars, pings, peerVars, now>>

\* Lines 92-93: silent := false; start the read loop.
CoordSpawn ==
    /\ coordPc = "spawn"
    /\ silent' = FALSE
    /\ readPc' = "read"
    /\ coordPc' = "select"
    /\ started' = [started EXCEPT !.read = @ + 1]
    /\ UNCHANGED <<sessionVars, doneCh, doneCloses, connCloses, handled,
                   errCalls, connFailed, stopAtFail, stopAtTest, callerVars,
                   kaVars, peerVars, now>>

\* Line 109, the receive completing a caller's send on stopCh.  The select
\* takes any sender that is ready.
CoordRecvStop ==
    /\ coordPc = "select"
    /\ \E late \in BOOLEAN :
          /\ (IF late THEN lateStops ELSE pendingStops) > 0
          /\ lateStops' = IF late THEN lateStops - 1 ELSE lateStops
          /\ pendingStops' = IF late THEN pendingStops ELSE pendingStops - 1
    /\ acceptedStops' = acceptedStops + 1
    /\ coordPc' = "silent"
    /\ UNCHANGED <<sessionVars, doneCh, doneCloses, started, connCloses, silent,
                   readVars, kaVars, peerVars, now>>

AfterSendLoops == "read"

\* Line 101: where the read loop goes once its send on stopCh has completed.
AfterSend == "done"

\* Line 109 meeting line 100: the receive completing the read loop's own
\* send; the read loop returns (line 101).
CoordRecvLoopEnd ==
    /\ coordPc = "select"
    /\ readPc = "send"
    /\ readPc' = AfterSend
    /\ coordPc' = "silent"
    /\ UNCHANGED <<sessionVars, doneCh, doneCloses, started, connCloses, silent,
                   handled, errCalls, connFailed, stopAtFail, stopAtTest,
                   callerVars, kaVars, peerVars, now>>

AfterSilentLoops == "select"

\* Line 111: where the coordinator goes after silent = true.
AfterSilent == "return"

\* Line 110: silent = true.
CoordSilent ==
    /\ coordPc = "silent"
    /\ silent' = TRUE
    /\ coordPc' = AfterSilent
    /\ UNCHANGED <<sessionVars, doneCh, doneCloses, started, connCloses, readVars,
                   callerVars, kaVars, peerVars, now>>

AfterCloseLoops == "select"

\* Lines 85 and 111: close(doneCh) is deferred, so it is the last thing the
\* coordinator does: after it the goroutine is gone.
AfterClose == "done"

\* Line 111 running the deferred close(doneCh) of line 85.
CoordReturn ==
    /\ coordPc = "return"
    /\ doneCh' = "closed"
    /\ doneCloses' = doneCloses + 1
    /\ coordPc' = AfterClose
    /\ UNCHANGED <<sessionVars, started, connCloses, silent, readVars,
                   callerVars, kaVars, peerVars, now>>

\* Line 112, case <-doneCh: a receive from doneCh, which only a close of
\* doneCh enables; it loops back to the select.
CoordRecvDone ==
    /\ coordPc = "select"
    /\ doneCh = "closed"
    /\ UNCHANGED vars

\* ---------------------------------------------------------------- read loop
otherThanRead == <<sessionVars, coordVars, connCloses, silent, callerVars>>

AtReadMessageOrHandler == readPc \in {"read", "handler"}

\* Lines 94-95 and 103: the loop calls ReadMessage at its top, which it
\* reaches from the spawn and from the return of handler(message).
AtReadMessage == readPc = "read"

\* Lines 95 and 103, ReadMessage returning a message and handler(message)
\* being entered: the next frame is a data frame within the read limit.
ReadMessageOk ==
    /\ AtReadMessage
    /\ wire # <<>>
    /\ Readable(NextFrame)
    /\ handled' = Append(handled, NextFrame.payload)
    /\ wire' = Tail(wire)
    /\ readPc' = "handler"
    /\ UNCHANGED <<otherThanRead, errCalls, connFailed, stopAtFail, stopAtTest,
                   kaVars, dataSent, peerClosed, pongs, now>>

\* Line 95 with lines 124-127: inside ReadMessage the connection meets a pong
\* and runs the pong handler on the read loop's goroutine; ReadMessage goes
\* on waiting for a message.
ReadPong ==
    /\ readPc = "read"
    /\ wire # <<>>
    /\ NextFrame.kind = "pong"
    /\ wire' = Tail(wire)
    /\ lastResponse' = IF pongHandlerSet THEN now ELSE lastResponse
    /\ UNCHANGED <<otherThanRead, readVars, kaPc, firstResponse,
                   pongHandlerSet, nextTick, pings, dataSent, peerClosed,
                   pongs, now>>

\* Lines 95-96, ReadMessage returning an error: the peer's close or a frame
\* over the read limit.  The connection answers with a close frame of its
\* own and has failed for good: it refuses control writes, every later read
\* returns the same error, and what the peer sent after the failing frame
\* is never read.
ReadMessageFail ==
    /\ readPc = "read"
    /\ IF connFailed THEN TRUE ELSE wire # <<>> /\ Failing(NextFrame)
    /\ wire' = <<>>
    /\ connFailed' = TRUE
    /\ readPc' = "test"
    /\ stopAtFail' = StopStage
    /\ UNCHANGED <<otherThanRead, handled, errCalls, stopAtTest, kaVars,
                   dataSent, peerClosed, pongs, now>>

\* The values of silent the read loop's read at line 97 can return.  The
\* write at line 110 and this read are not ordered by any synchronisation:
\* once the coordinator has written true, the read returns either write.
SilentVisible == IF silent THEN {TRUE, FALSE} ELSE {FALSE}

ShouldReportInverted(seen) == seen

\* Line 97: if !silent.
ShouldReport(seen) == ~seen

\* Line 97: test silent.
ReadTest ==
    /\ readPc = "test"
    /\ \E seen \in SilentVisible :
          readPc' = IF ShouldReport(seen) THEN "report" ELSE "send"
    /\ stopAtTest' = StopStage
    /\ UNCHANGED <<otherThanRead, handled, errCalls, connFailed, stopAtFail,
                   kaVars, peerVars, now>>

\* Line 98: errHandler(err).
ReadReport ==
    /\ readPc = "report"
    /\ errCalls' = errCalls + 1
    /\ readPc' = "send"
    /\ UNCHANGED <<otherThanRead, handled, connFailed, stopAtFail,
                   stopAtTest, kaVars, peerVars, now>>

\* Lines 103-104: handler(message) returns and the loop goes round.
HandlerReturn ==
    /\ readPc = "handler"
    /\ readPc' = "read"
    /\ UNCHANGED <<otherThanRead, handled, errCalls, connFailed, stopAtFail,
                   stopAtTest, kaVars, peerVars, now>>

\* ---------------------------------------------------------------- keepalive
ErrCallsAfterKaExitReports(n) == n + 1

\* Lines 135 and 139: the keepalive loop leaves by a bare return; the count
\* of errHandler invocations after it is the count n before it.
ErrCallsAfterKaExit(n) == n

\* Lines 132-136: write a ping; return when the write fails.
KaProbe ==
    /\ kaPc = "probe"
    /\ IF connFailed
       THEN /\ kaPc' = "done"
            /\ errCalls' = ErrCallsAfterKaExit(errCalls)
            /\ UNCHANGED pings
       ELSE /\ kaPc' = "wait"
            /\ pings' = pings + 1
            /\ UNCHANGED errCalls
    /\ UNCHANGED <<otherThanRead, readPc, handled, connFailed, stopAtFail,
                   stopAtTest, lastResponse, firstResponse, pongHandlerSet,
                   nextTick, peerVars, now>>

\* The values of lastResponse the keepalive loop's read at line 138 can
\* return.  The pong handler writes it on the read loop's goroutine (line
\* 125) and no synchronisation orders those writes with this read: the read
\* returns the write of line 123, which the go statement of line 129 orders
\* before it, or any write of the handler.  The writes grow with the clock,
\* so the test of line 138 has the outcomes it has on the first and on the
\* latest of them.
LastResponseVisible == {firstResponse, lastResponse}

\* Line 138: time.Since(lastResponse) > timeout, on the value read.
TimedOut(seen) == now - seen > Timeout

\* Lines 137-140: receive the tick; return when the peer has been silent for
\* longer than the timeout.
KaTick ==
    /\ kaPc = "wait"
    /\ now >= nextTick
    /\ nextTick' = nextTick + Timeout
    /\ \E seen \in LastResponseVisible :
          IF TimedOut(seen)
          THEN /\ kaPc' = "done"
               /\ errCalls' = ErrCallsAfterKaExit(errCalls)
          ELSE /\ kaPc' = "probe"
               /\ UNCHANGED errCalls
    /\ UNCHANGED <<otherThanRead, readPc, handled, connFailed, stopAtFail,
                   stopAtTest, lastResponse, firstResponse, pongHandlerSet,
                   pings, peerVars, now>>

\* The clock advances.  The keepalive goroutine acts at the instant it is
\* due: the clock waits for a probe to be written and for a due tick to be
\* received.
Tick ==
    /\ kaPc \in {"wait", "done"}
    /\ ~(kaPc = "wait" /\ now >= nextTick)
    /\ now < MaxTime
    /\ now' = now + 1
    /\ UNCHANGED <<otherThanRead, readVars, kaVars, peerVars>>

\* --------------------------------------------------------------------- peer
\* The peer acts on a connection that is up: what it sends on a connection
\* that has failed reaches nobody.
\* The peer sends its next data frame: the k-th frame carries payload k.
PeerSend(n) ==
    /\ serveResult = "ok"
    /\ ~peerClosed
    /\ ~connFailed
    /\ dataSent < MaxFrames
    /\ dataSent' = dataSent + 1
    /\ wire' = Append(wire, DataFrame(dataSent + 1, n))
    /\ UNCHANGED <<otherThanRead, readVars, kaVars, peerClosed, pongs, now>>

\* The peer answers a ping it has received.
PeerPong ==
    /\ serveResult = "ok"
    /\ ~peerClosed
    /\ ~connFailed
    /\ pongs < pings
    /\ pongs < MaxPongs
    /\ pongs' = pongs + 1
    /\ wire' = Append(wire, PongFrame)
    /\ UNCHANGED <<otherThanRead, readVars, kaVars, dataSent, peerClosed, now>>

\* The peer closes the connection.
PeerClose ==
    /\ serveResult = "ok"
    /\ ~peerClosed
    /\ ~connFailed
    /\ peerClosed' = TRUE
    /\ wire' = Append(wire, CloseFrame)
    /\ UNCHANGED <<otherThanRead, readVars, kaVars, dataSent, pongs, now>>

\* ------------------------------------------------------------------- caller
\* The caller starts a send on stopCh (README: stopCh <- struct{}{}, in a
\* goroutine of its own).  The send blocks until the coordinator receives.
CallerStop ==
    /\ serveResult = "ok"
    /\ StopsIssued < MaxStops
    /\ IF doneCh = "closed"
       THEN /\ lateStops' = lateStops + 1
            /\ UNCHANGED pendingStops
       ELSE /\ pendingStops' = pendingStops + 1
            /\ UNCHANGED lateStops
    /\ UNCHANGED <<sessionVars, coordVars, connCloses, silent, readVars,
                   acceptedStops, kaVars, peerVars, now>>

\* ------------------------------------------------------------ specification
Coordinator ==
    \/ CoordKeepAlive
    \/ CoordSpawn
    \/ CoordRecvStop
    \/ CoordRecvLoopEnd
    \/ CoordSilent
    \/ CoordReturn

ReadLoop ==
    \/ ReadMessageOk
    \/ ReadPong
    \/ ReadMessageFail
    \/ ReadTest
    \/ ReadReport
    \/ HandlerReturn

KeepAliveLoop ==
    \/ KaProbe
    \/ KaTick

Peer ==
    \/ \E n \in Sizes : PeerSend(n)
    \/ PeerPong
    \/ PeerClose

\* CoordRecvDone is left out: doneCh is closed only by the coordinator's own
\* return, so the branch is never enabled (NoDoneBranch below).
Next ==
    \/ NewClient
    \/ \E outcome \in DialOutcomes : WsServe(outcome)
    \/ Coordinator
    \/ ReadLoop
    \/ KeepAliveLoop
    \/ Tick
    \/ Peer
    \/ CallerStop

Spec == Init /\ [][Next]_vars

\* NewWebsocketStreamClient alone, over every call of the bounded inputs.
ClientSpec == ClientInit /\ [][NewClient]_vars

\* The Go scheduler runs every goroutine that can take a step, and a handler
\* that was called returns.  Nothing obliges the peer, the caller or the
\* clock of the model to act.
FairSpec ==
    /\ Spec
    /\ WF_vars(Coordinator)
    /\ WF_vars(ReadLoop)
    /\ WF_vars(KeepAliveLoop)

StopStages == {"unset", "none", "raised", "accepted"}

TypeOK ==
    /\ dials \in 0..1
    /\ callCombined \in BOOLEAN
    /\ callBaseURL \in BaseURLLists
    /\ client.IsCombined \in BOOLEAN
    /\ dial \in DialOutcomes \cup {"none"}
    /\ serveResult \in {"none", "ok", "error", "panic"}
    /\ keepalive \in BOOLEAN
    /\ doneCh \in {"nil", "open", "closed"}
    /\ stopCh \in {"nil", "open"}
    /\ doneCloses \in 0..2
    /\ connCloses \in 0..2
    /\ coordPc \in {"none", "keepAlive", "spawn", "select", "silent", "return", "done"}
    /\ started \in [{"coord", "read", "ka"} -> 0..1]
    /\ silent \in BOOLEAN
    /\ readPc \in {"none", "read", "handler", "test", "report", "send", "done"}
    /\ handled \in Seq(1..MaxFrames)
    /\ errCalls \in Nat
    /\ \A i \in 1..Len(wire) : wire[i] \in Frames
    /\ dataSent \in 0..MaxFrames
    /\ peerClosed \in BOOLEAN
    /\ connFailed \in BOOLEAN
    /\ pendingStops \in 0..MaxStops
    /\ lateStops \in 0..MaxStops
    /\ acceptedStops \in 0..MaxStops
    /\ kaPc \in {"none", "probe", "wait", "done"}
    /\ lastResponse \in 0..MaxTime
    /\ firstResponse \in 0..MaxTime
    /\ pongHandlerSet \in BOOLEAN
    /\ nextTick \in Nat
    /\ pings \in Nat
    /\ pongs \in 0..pings
    /\ now \in 0..MaxTime
    /\ stopAtFail \in StopStages
    /\ stopAtTest \in StopStages

NoDoneBranch == ~ENABLED CoordRecvDone

\* =================================================================== claims

\* C1: a caller send on stopCh issued after doneCh was closed completes: the
\* caller is not blocked forever.
C1_LateStopCompletes == (lateStops > 0) ~> (lateStops = 0)

\* C2: once doneCh is closed, no invocation of the message handler is in
\* progress.
C2_NoHandlerAfterDone == doneCh = "closed" => readPc # "handler"

\* C3: doneCh is closed exactly once, never twice, not before a stop was
\* received or the read loop ended, and always after either (the coordinator
\* and the read loop being scheduled fairly).
C3_DoneClosedOnce ==
    /\ [](doneCloses <= 1)
    /\ []((doneCh = "closed") <=> (doneCloses = 1))
    /\ [](doneCh = "closed" => (acceptedStops > 0 \/ readPc = "done"))
    /\ ((acceptedStops > 0 \/ readPc = "done") ~> (doneCh = "closed"))

C3_Witness ==
    /\ doneCloses = 1
    /\ acceptedStops = 1
    /\ pendingStops = 1
    /\ readPc = "send"

\* C4: when the caller's send on stopCh completed before ReadMessage failed,
\* the error handler is never invoked.
C4_SilentAfterStop == stopAtFail = "accepted" => errCalls = 0

C7_InOrderOnce ==
    /\ \A k \in 1..Len(handled) : handled[k] = k
    /\ Len(handled) <= dataSent
    /\ (readPc = "read" /\ wire = <<>> /\ stopAtFail = "unset")
          => Len(handled) = dataSent

C7_Witness ==
    /\ handled = <<1, 2>>
    /\ readPc = "read"
    /\ wire = <<>>
    /\ StopsIssued = 0

\* C8: after doneCh is closed the socket has been closed, exactly once.
C8_SocketClosedOnce == doneCh = "closed" => connCloses = 1

\* C9: with keepalive enabled, a peer that never answers a probe and keeps
\* the connection open, no caller stop, the coordinator waiting in its select
\* and the read loop in ReadMessage: the keepalive monitor has closed
\* the socket and doneCh is closed once the first missed acknowledgment
\* window (one timeout), a further timeout and one extra tick have passed.
C9_SilentPeerEndsSession ==
    (/\ keepalive
     /\ kaPc # "none"
     /\ pongs = 0
     /\ ~peerClosed
     /\ stopAtFail = "unset"
     /\ StopsIssued = 0
     /\ coordPc = "select"
     /\ readPc = "read"
     /\ now > 3 * Timeout)
        => (connCloses > 0 /\ doneCh = "closed")

\* C10: when the dial fails, wsServe returns an error with doneCh and stopCh
\* nil and no goroutine started.
C10_DialFailureReturnsError ==
    (dial \notin {"none", "ok"})
        => /\ serveResult = "error"
           /\ doneCh = "nil"
           /\ stopCh = "nil"
           /\ coordPc = "none"
           /\ readPc = "none"
           /\ kaPc = "none"

\* C11: wsServe never panics on an expected failure: no dial failure ends in
\* a panic, and a read failure met while no caller stop was raised ends as
\* one invocation of the error handler.
C11_NoPanicOnFailure ==
    /\ serveResult # "panic"
    /\ (stopAtTest = "none" /\ readPc \in {"send", "done"}) => errCalls = 1

\* C12: over the whole life of a session the error handler is invoked at
\* most once, whatever the peer sends, whenever reads fail, the keepalive
\* loop exits and the caller sends on stopCh.
C12_ErrorAtMostOnce == errCalls <= 1

C12_Witness ==
    /\ errCalls = 1
    /\ readPc = "done"
    /\ doneCh = "closed"
    /\ lateStops > 0
    /\ kaPc = "done"
    /\ Len(handled) > 0

\* C13: a frame larger than the read limit is never passed to the message
\* handler: the read that meets it fails and the read loop leaves its loop
\* for the test of silent, as on any read error; after any read failure the
\* loop reads and handles nothing more, and when no caller stop was raised
\* the error handler is invoked.
C13_OversizeFailsRead ==
    /\ [][(/\ readPc = "read"
           /\ wire # <<>>
           /\ Head(wire).kind = "data"
           /\ Head(wire).size > ReadLimit
           /\ Len(wire') < Len(wire))
            => (handled' = handled /\ connFailed' /\ readPc' = "test")]_vars
    /\ [](connFailed => readPc \in {"test", "report", "send", "done"})
    /\ []((connFailed /\ stopAtTest = "none" /\ readPc \in {"send", "done"})
            => errCalls = 1)

\* The read failed on an oversized frame (the peer never closed), no stop was
\* raised, and the error handler was invoked.
C13_Witness ==
    /\ connFailed
    /\ ~peerClosed
    /\ stopAtTest = "none"
    /\ errCalls = 1
    /\ readPc = "done"
    /\ Len(handled) < dataSent

\* C14: in every state in which doneCh is closed the read loop goroutine has
\* returned: it is not in ReadMessage, not running the handler and not
\* blocked on its end-of-loop send.
C14_DoneAfterReadLoop == doneCh = "closed" => readPc = "done"

\* C15: with keepalive enabled, in every state in which doneCh is closed the
\* keepalive loop has stopped, and no probe is written once doneCh is closed.
C15_DoneAfterKeepAlive ==
    /\ [](keepalive /\ doneCh = "closed" => kaPc = "done")
    /\ [][doneCh = "closed" => pings' = pings]_vars

\* C16: once the coordinator has received a caller stop the pending socket
\* read is unblocked: the read loop leaves ReadMessage and its handler for
\* good, on its way to returning, whatever the peer does (the read loop being
\* scheduled fairly).
C16_StopUnblocksRead ==
    (acceptedStops > 0) ~> [](readPc \notin {"read", "handler"})

\* C17: the error wsServe returns on a dial failure tells a handshake failure
\* from a generic one: a dial the server rejected has returned an error that
\* names the handshake (the prefix of line 74, or the dialer's own
\* ErrBadHandshake), and a dial that failed before any response has returned
\* an error that does not.
C17_HandshakeClassMarked ==
    /\ dial \in {"rejectedTLS", "rejectedPlain"}
          => ReturnedErr \in {"websocket.Handshake: ", "ErrBadHandshake"}
    /\ dial = "noResponse"
          => ReturnedErr \notin {"websocket.Handshake: ", "ErrBadHandshake"}

\* C18: the client NewWebsocketStreamClient returns has IsCombined equal to
\* the argument, and its Endpoint is the base followed by "/stream?streams="
\* in combined mode and by "/ws" otherwise, the base being the first baseURL
\* argument when there is one and "wss://stream.binance.com:9443" when not.
C18_ClientEndpoint ==
    client # ZeroClient =>
        /\ client.IsCombined = callCombined
        /\ client.Endpoint =
              (IF callBaseURL # <<>> THEN Head(callBaseURL)
                                     ELSE "wss://stream.binance.com:9443")
              \o (IF callCombined THEN "/stream?streams=" ELSE "/ws")

C18_Witness ==
    /\ client = [Endpoint |-> "wss://testnet.binance.vision/stream?streams=",
                 IsCombined |-> TRUE]
    /\ Len(callBaseURL) = 2
    /\ callBaseURL[2] = "ws://localhost:8080"

\* C19: at most one invocation of the message handler is in progress, and
\* the read loop reads no frame while one is: an invocation starts only from
\* ReadMessage, one frame at a time, and until it returns no frame leaves
\* the connection and no further invocation starts.
C19_HandlerBackPressure ==
    /\ [][readPc = "handler"
            => (handled' = handled /\ Len(wire') >= Len(wire))]_vars
    /\ [][handled' # handled
            => /\ readPc = "read"
               /\ readPc' = "handler"
               /\ handled' = Append(handled, Head(wire).payload)
               /\ wire' = Tail(wire)]_vars

\* The handler runs on frame 1 while frame 2 waits on the connection.
C19_Witness ==
    /\ readPc = "handler"
    /\ handled = <<1>>
    /\ wire # <<>>
    /\ Head(wire).kind = "data"
    /\ Head(wire).size <= ReadLimit

\* C20: a successful wsServe has started exactly one coordinator, and a
\* failed one none; once the coordinator is in its select it has started
\* exactly one read loop, and exactly one keepalive loop when
\* WebsocketKeepalive is true and none when it is false; at no time has the
\* session started, or is it running, more than one goroutine of a kind.
C20_OneLoopOfEachKind ==
    /\ started.coord = (IF serveResult = "ok" THEN 1 ELSE 0)
    /\ started.read <= 1
    /\ started.ka <= 1
    /\ (readPc # "none") <=> (started.read = 1)
    /\ (kaPc # "none") <=> (started.ka = 1)
    /\ ~keepalive => started.ka = 0
    /\ coordPc \in {"select", "silent", "return", "done"}
          => /\ started.read = 1
             /\ started.ka = (IF keepalive THEN 1 ELSE 0)

C20_Witness ==
    /\ keepalive
    /\ started = [coord |-> 1, read |-> 1, ka |-> 1]
    /\ coordPc = "done"
    /\ readPc = "done"
    /\ kaPc = "done"

\* C21: the keepalive loop ends only when a probe send fails or when, at a
\* tick, the time since lastResponse exceeds the timeout; it does not end at
\* a tick by which the peer has answered every probe; and it writes one
\* probe per tick period.
C21_KeepAliveExits ==
    /\ [][(kaPc # "done" /\ kaPc' = "done")
            => \/ kaPc = "probe" /\ connFailed
               \/ kaPc = "wait" /\ now >= nextTick
                                /\ now - lastResponse > Timeout]_vars
    /\ [][(kaPc = "wait" /\ kaPc' = "done") => pongs < pings]_vars
    /\ [](kaPc = "wait" => pings * Timeout = nextTick - firstResponse)
    /\ [](kaPc = "probe" => (pings + 1) * Timeout = nextTick - firstResponse)

\* C22: the keepalive loop never invokes the error handler: every invocation
\* is one step of the read loop at line 98, and the exits of the keepalive
\* loop, on a failed probe send or on a timeout, invoke nothing.
C22_OnlyReadLoopReports ==
    /\ [][errCalls' # errCalls
            => /\ readPc = "report"
               /\ readPc' = "send"
               /\ errCalls' = errCalls + 1
               /\ kaPc' = kaPc]_vars
    /\ [][kaPc' # kaPc => errCalls' = errCalls]_vars

\* The keepalive loop has exited on a failed probe send, with the one error
\* the read loop reported.
C22_Witness ==
    /\ kaPc = "done"
    /\ connFailed
    /\ pings > 0
    /\ nextTick > now
    /\ errCalls = 1

\* C23: lastResponse is written only by keepAlive's initialisation and by
\* the pong handler, and the keepalive loop's read of it is ordered with the
\* handler's writes as an atomic or a mutex orders them: the read returns
\* the latest write, so the loop's decision at a tick is the one the latest
\* lastResponse gives.
C23_LastResponseGuarded ==
    /\ [][lastResponse' # lastResponse
            => \/ coordPc = "keepAlive" /\ coordPc' # "keepAlive"
               \/ /\ readPc = "read"
                  /\ wire # <<>>
                  /\ Head(wire).kind = "pong"
                  /\ wire' = Tail(wire)]_vars
    /\ [][(kaPc = "wait" /\ kaPc' # "wait")
            => ((kaPc' = "done") <=> (now - lastResponse > Timeout))]_vars

\* C24: the coordinator never busy-loops: while it is in its select the
\* doneCh branch is not enabled, it takes no step until it receives on
\* stopCh, and it leaves the select only by that receive, from a caller or
\* from the read loop, whichever comes first.
C24_NoBusyLoop ==
    /\ [](coordPc = "select" => (doneCh = "open" /\ ~ENABLED CoordRecvDone))
    /\ [][(coordPc = "select" /\ coordPc' = "select")
            => UNCHANGED <<doneCh, doneCloses, silent, started,
                           acceptedStops>>]_vars
    /\ [][(coordPc = "select" /\ coordPc' # "select")
            => /\ coordPc' = "silent"
               /\ \/ acceptedStops' = acceptedStops + 1
                  \/ readPc = "send" /\ readPc' = "done"]_vars

\* The coordinator waits in its select with a caller's send and the read
\* loop's send both pending.
C24_Witness ==
    /\ coordPc = "select"
    /\ readPc = "send"
    /\ pendingStops > 0
    /\ errCalls = 1

\* C25: a session never reconnects: wsServe dials exactly once, a connection
\* that has failed stays failed, and once the error handler has been invoked
\* the message handler is never invoked again.
C25_NoReconnect ==
    /\ [](dials <= 1)
    /\ []((serveResult # "none") <=> (dials = 1))
    /\ [][connFailed => connFailed']_vars
    /\ [][errCalls > 0 => handled' = handled]_vars

\* The error handler was invoked after one frame was handled, and a frame the
\* peer sent was never handled.
C25_Witness ==
    /\ dials = 1
    /\ errCalls = 1
    /\ handled = <<1>>
    /\ dataSent = 2
    /\ readPc = "done"

\* C26: the error handler is never invoked once doneCh is closed, however a
\* caller stop and a read error interleave.
C26_NoErrorAfterDone == [][doneCh = "closed" => errCalls' = errCalls]_vars

\* C27: whenever the read loop meets a read error it returns: its send on
\* stopCh is received, also when a caller's stop was received first and the
\* coordinator has returned (the coordinator and the read loop being
\* scheduled fairly).
C27_ReadLoopReturns == (stopAtFail # "unset") ~> (readPc = "done")

\* C28: with keepalive enabled the pong handler is installed before the
\* keepalive loop exists and writes its first probe and before the read loop
\* makes its first read, so every pong the read loop meets sets lastResponse
\* to the time it is met.
C28_PongHandlerFirst ==
    /\ []((keepalive /\ coordPc \notin {"none", "keepAlive"}) => pongHandlerSet)
    /\ []((kaPc # "none" \/ pings > 0) => pongHandlerSet)
    /\ []((keepalive /\ readPc # "none") => pongHandlerSet)
    /\ [][(/\ wire # <<>>
           /\ Head(wire).kind = "pong"
           /\ wire' = Tail(wire))
            => lastResponse' = now]_vars

\* The read loop met the peer's pong one clock unit into the session.
C28_Witness ==
    /\ keepalive
    /\ pongs = 1
    /\ wire = <<>>
    /\ lastResponse = 1
    /\ firstResponse = 0

====
